---- MODULE Spec2Model ----
(***************************************************************************)
(* A model of text_history.py: the class TextHistory (a text, its version  *)
(* and the list of the actions applied to it) and the three Action         *)
(* classes InsertAction, ReplaceAction, DeleteAction.                      *)
(*                                                                         *)
(* A Python str is a sequence of one-character strings.  A raised          *)
(* ValueError is a result record with raised = TRUE and the message.       *)
(* An optional argument is a sequence: <<>> is None, <<x>> is the value x. *)
(***************************************************************************)
EXTENDS Integers, Sequences, FiniteSets, TLC

VARIABLES
    text,           \* TextHistory._text
    version,        \* TextHistory._version
    actions_list,   \* TextHistory.__actions_list
    last,           \* the last call that may change the object: the method,
                    \* whether it raised, the message, the version it returned
    snapshots,      \* history variable: the text after each committed action
    successes       \* history variable: the number of calls that returned

vars == <<text, version, actions_list, last, snapshots, successes>>

(***************************************************************************)
(* Bounds of the model.                                                    *)
(***************************************************************************)
MaxVersion == 3     \* mutating calls are made while fewer actions are logged
MaxLen == 3         \* texts longer than this are not built

(***************************************************************************)
(* Python values.                                                          *)
(***************************************************************************)
None == <<>>

Some(x) == <<x>>

Max(a, b) == IF a > b THEN a ELSE b

Min(a, b) == IF a < b THEN a ELSE b

\* The index a slice bound i denotes in a sequence of length n: a negative
\* bound counts from the end, and every bound is clamped to 0 .. n.
SliceIndex(i, n) == IF i < 0 THEN Max(i + n, 0) ELSE Min(i, n)

\* s[:i]
SliceTo(s, i) == SubSeq(s, 1, SliceIndex(i, Len(s)))

\* s[i:]
SliceFrom(s, i) == SubSeq(s, SliceIndex(i, Len(s)) + 1, Len(s))

Returned(t) == [raised |-> FALSE, msg |-> "", text |-> t]

Raised(m) == [raised |-> TRUE, msg |-> m, text |-> <<>>]

(***************************************************************************)
(* The Action classes.                                                     *)
(***************************************************************************)
InsertAction(pos, txt, from_version, to_version) ==
    [kind |-> "InsertAction", pos |-> pos, text |-> txt,
     from_version |-> from_version, to_version |-> to_version]

ReplaceAction(pos, txt, from_version, to_version) ==
    [kind |-> "ReplaceAction", pos |-> pos, text |-> txt,
     from_version |-> from_version, to_version |-> to_version]

DeleteAction(pos, length, from_version, to_version) ==
    [kind |-> "DeleteAction", pos |-> pos, length |-> length,
     from_version |-> from_version, to_version |-> to_version]

\* insert's apply with no check of a position beyond the end of the text.
InsertApply_NoUpperBound(self, txt) ==
    IF self.pos < 0
    THEN Raised("incorrect pos in InsertAction.")
    ELSE Returned(SliceTo(txt, self.pos) \o self.text \o SliceFrom(txt, self.pos))

InsertApply(self, txt) ==
    IF self.pos > Len(txt) \/ self.pos < 0
    THEN Raised("incorrect pos in InsertAction.")
    ELSE Returned(SliceTo(txt, self.pos) \o self.text \o SliceFrom(txt, self.pos))

\* replace's apply that takes the end of the text for a position out of it.
ReplaceApply_StrictPos(self, txt) ==
    IF self.pos >= Len(txt) \/ self.pos < 0
    THEN Raised("incorrect pos in ReplaceAction")
    ELSE LET end_idx == self.pos + Len(self.text)
         IN  IF end_idx >= Len(txt)
             THEN Returned(SliceTo(txt, self.pos) \o self.text)
             ELSE Returned(SliceTo(txt, self.pos) \o self.text
                           \o SliceFrom(txt, end_idx))

\* replace's apply that keeps, after the new text, the old text from pos on
\* instead of from end_idx on.
ReplaceApply_TailFromPos(self, txt) ==
    IF self.pos > Len(txt) \/ self.pos < 0
    THEN Raised("incorrect pos in ReplaceAction")
    ELSE LET end_idx == self.pos + Len(self.text)
         IN  IF end_idx >= Len(txt)
             THEN Returned(SliceTo(txt, self.pos) \o self.text)
             ELSE Returned(SliceTo(txt, self.pos) \o self.text
                           \o SliceFrom(txt, self.pos))

ReplaceApply(self, txt) ==
    IF self.pos > Len(txt) \/ self.pos < 0
    THEN Raised("incorrect pos in ReplaceAction")
    ELSE LET end_idx == self.pos + Len(self.text)
         IN  IF end_idx >= Len(txt)
             THEN Returned(SliceTo(txt, self.pos) \o self.text)
             ELSE Returned(SliceTo(txt, self.pos) \o self.text
                           \o SliceFrom(txt, end_idx))

\* delete's apply that refuses a delete reaching the end of the text.
DeleteApply_StrictEnd(self, txt) ==
    IF self.pos + self.length >= Len(txt) \/ self.pos < 0
    THEN Raised("incorrect pos in DeleteAction.")
    ELSE Returned(SliceTo(txt, self.pos)
                  \o SliceFrom(txt, self.pos + self.length))

DeleteApply(self, txt) ==
    IF self.pos + self.length > Len(txt) \/ self.pos < 0
    THEN Raised("incorrect pos in DeleteAction.")
    ELSE Returned(SliceTo(txt, self.pos)
                  \o SliceFrom(txt, self.pos + self.length))

\* action.apply(text): the method of the action's class.
Apply(action, txt) ==
    CASE action.kind = "InsertAction" -> InsertApply(action, txt)
      [] action.kind = "ReplaceAction" -> ReplaceApply(action, txt)
      [] action.kind = "DeleteAction" -> DeleteApply(action, txt)

(***************************************************************************)
(* TextHistory.  self is the record of the object's three fields; a        *)
(* method gives back the object after the call, whether it raised, the     *)
(* message, and the value it returned.                                     *)
(***************************************************************************)
TextHistory == [text |-> <<>>, version |-> 0, actions_list |-> <<>>]

\* action with the version set before the action is applied.
action_VersionFirst(self, act) ==
    IF self.version # act.from_version
    THEN [raised |-> TRUE, msg |-> "incopatible versions.", self |-> self,
          value |-> 0]
    ELSE LET r == Apply(act, self.text)
         IN  IF r.raised
             THEN [raised |-> TRUE, msg |-> r.msg,
                   self |-> [self EXCEPT !.version = act.to_version],
                   value |-> 0]
             ELSE [raised |-> FALSE, msg |-> "",
                   self |-> [text |-> r.text,
                             version |-> act.to_version,
                             actions_list |-> Append(self.actions_list, act)],
                   value |-> act.to_version]

\* action with the action put at the head of the list.
action_Prepend(self, act) ==
    IF self.version # act.from_version
    THEN [raised |-> TRUE, msg |-> "incopatible versions.", self |-> self,
          value |-> 0]
    ELSE LET r == Apply(act, self.text)
         IN  IF r.raised
             THEN [raised |-> TRUE, msg |-> r.msg, self |-> self, value |-> 0]
             ELSE [raised |-> FALSE, msg |-> "",
                   self |-> [text |-> r.text,
                             version |-> act.to_version,
                             actions_list |-> <<act>> \o self.actions_list],
                   value |-> act.to_version]

action(self, act) ==
    IF self.version # act.from_version
    THEN [raised |-> TRUE, msg |-> "incopatible versions.", self |-> self,
          value |-> 0]
    ELSE LET r == Apply(act, self.text)
         IN  IF r.raised
             THEN [raised |-> TRUE, msg |-> r.msg, self |-> self, value |-> 0]
             ELSE [raised |-> FALSE, msg |-> "",
                   self |-> [text |-> r.text,
                             version |-> act.to_version,
                             actions_list |-> Append(self.actions_list, act)],
                   value |-> act.to_version]

\* The wrappers return self._version as it is after self.action(act).
ReturnVersion(r) == IF r.raised THEN r ELSE [r EXCEPT !.value = r.self.version]

\* insert with an action that ends at the version it starts from.
insert_SameVersion(self, txt, pos) ==
    LET p == IF pos = None THEN Len(self.text) ELSE pos[1]
        act == InsertAction(p, txt, self.version, self.version)
    IN  ReturnVersion(action(self, act))

insert(self, txt, pos) ==
    LET p == IF pos = None THEN Len(self.text) ELSE pos[1]
        act == InsertAction(p, txt, self.version, self.version + 1)
    IN  ReturnVersion(action(self, act))

\* replace that takes the start of the text when no position is given.
replace_DefaultStart(self, txt, pos) ==
    LET p == IF pos = None THEN 0 ELSE pos[1]
        act == ReplaceAction(p, txt, self.version, self.version + 1)
    IN  ReturnVersion(action(self, act))

replace(self, txt, pos) ==
    LET p == IF pos = None THEN Len(self.text) ELSE pos[1]
        act == ReplaceAction(p, txt, self.version, self.version + 1)
    IN  ReturnVersion(action(self, act))

delete(self, pos, length) ==
    LET act == DeleteAction(pos, length, self.version, self.version + 1)
    IN  ReturnVersion(action(self, act))

\* The objects get_actions works on: heap[i] for i in 1 .. Len(actions_list) is
\* the i-th logged action, and an action object constructed during the call is
\* appended to heap.  Lists of actions are lists of heap indices, as Python's
\* lists hold references.
\* try_merge_delete with the merge written into the action already in the list.
try_merge_delete_InPlace(act, optimize_act_list, heap) ==
    LET pre_action == optimize_act_list[Len(optimize_act_list)]
    IN  IF heap[pre_action].pos = heap[act].pos
        THEN [heap |-> [heap EXCEPT
                          ![pre_action].length = @ + heap[act].length,
                          ![pre_action].to_version = heap[act].to_version],
              list |-> optimize_act_list]
        ELSE [heap |-> heap, list |-> Append(optimize_act_list, act)]

\* try_merge_delete with the length of the later delete alone.
try_merge_delete_LastLength(act, optimize_act_list, heap) ==
    LET pre_action == optimize_act_list[Len(optimize_act_list)]
    IN  IF heap[pre_action].pos = heap[act].pos
        THEN LET new == DeleteAction(heap[act].pos,
                                     heap[act].length,
                                     heap[pre_action].from_version,
                                     heap[act].to_version)
             IN  [heap |-> Append(heap, new),
                  list |-> Append(SubSeq(optimize_act_list, 1,
                                         Len(optimize_act_list) - 1),
                                  Len(heap) + 1)]
        ELSE [heap |-> heap, list |-> Append(optimize_act_list, act)]

\* try_merge_delete that merges two deletes whatever their positions.
try_merge_delete_AnyPos(act, optimize_act_list, heap) ==
    LET pre_action == optimize_act_list[Len(optimize_act_list)]
        new == DeleteAction(heap[act].pos,
                            heap[pre_action].length + heap[act].length,
                            heap[pre_action].from_version,
                            heap[act].to_version)
    IN  [heap |-> Append(heap, new),
         list |-> Append(SubSeq(optimize_act_list, 1,
                                Len(optimize_act_list) - 1),
                         Len(heap) + 1)]

try_merge_delete(act, optimize_act_list, heap) ==
    LET pre_action == optimize_act_list[Len(optimize_act_list)]
    IN  IF heap[pre_action].pos = heap[act].pos
        THEN LET new == DeleteAction(heap[act].pos,
                                     heap[pre_action].length + heap[act].length,
                                     heap[pre_action].from_version,
                                     heap[act].to_version)
             IN  [heap |-> Append(heap, new),
                  list |-> Append(SubSeq(optimize_act_list, 1,
                                         Len(optimize_act_list) - 1),
                                  Len(heap) + 1)]
        ELSE [heap |-> heap, list |-> Append(optimize_act_list, act)]

\* try_merge_insert with the merged insert at the later insert's position.
try_merge_insert_LaterPos(act, optimize_act_list, heap) ==
    LET pre_action == optimize_act_list[Len(optimize_act_list)]
    IN  IF heap[act].pos = heap[pre_action].pos + Len(heap[pre_action].text)
        THEN LET new == InsertAction(heap[act].pos,
                                     heap[pre_action].text \o heap[act].text,
                                     heap[pre_action].from_version,
                                     heap[act].to_version)
             IN  [heap |-> Append(heap, new),
                  list |-> Append(SubSeq(optimize_act_list, 1,
                                         Len(optimize_act_list) - 1),
                                  Len(heap) + 1)]
        ELSE [heap |-> heap, list |-> Append(optimize_act_list, act)]

\* try_merge_insert with the two texts joined the wrong way round.
try_merge_insert_Swapped(act, optimize_act_list, heap) ==
    LET pre_action == optimize_act_list[Len(optimize_act_list)]
    IN  IF heap[act].pos = heap[pre_action].pos + Len(heap[pre_action].text)
        THEN LET new == InsertAction(heap[pre_action].pos,
                                     heap[act].text \o heap[pre_action].text,
                                     heap[pre_action].from_version,
                                     heap[act].to_version)
             IN  [heap |-> Append(heap, new),
                  list |-> Append(SubSeq(optimize_act_list, 1,
                                         Len(optimize_act_list) - 1),
                                  Len(heap) + 1)]
        ELSE [heap |-> heap, list |-> Append(optimize_act_list, act)]

\* try_merge_insert with the test turned round: it merges an insert that
\* does not start where the previous one ended and leaves apart one that does.
try_merge_insert_Apart(act, optimize_act_list, heap) ==
    LET pre_action == optimize_act_list[Len(optimize_act_list)]
    IN  IF heap[act].pos # heap[pre_action].pos + Len(heap[pre_action].text)
        THEN LET new == InsertAction(heap[pre_action].pos,
                                     heap[pre_action].text \o heap[act].text,
                                     heap[pre_action].from_version,
                                     heap[act].to_version)
             IN  [heap |-> Append(heap, new),
                  list |-> Append(SubSeq(optimize_act_list, 1,
                                         Len(optimize_act_list) - 1),
                                  Len(heap) + 1)]
        ELSE [heap |-> heap, list |-> Append(optimize_act_list, act)]

try_merge_insert(act, optimize_act_list, heap) ==
    LET pre_action == optimize_act_list[Len(optimize_act_list)]
    IN  IF heap[act].pos = heap[pre_action].pos + Len(heap[pre_action].text)
        THEN LET new == InsertAction(heap[pre_action].pos,
                                     heap[pre_action].text \o heap[act].text,
                                     heap[pre_action].from_version,
                                     heap[act].to_version)
             IN  [heap |-> Append(heap, new),
                  list |-> Append(SubSeq(optimize_act_list, 1,
                                         Len(optimize_act_list) - 1),
                                  Len(heap) + 1)]
        ELSE [heap |-> heap, list |-> Append(optimize_act_list, act)]

\* The iteration that hands every action that carries a text, a replace
\* included, to try_merge_insert.
OptimizeStep_MergeTexts(act, optimize_act_list, heap) ==
    IF optimize_act_list # <<>>
    THEN IF heap[optimize_act_list[Len(optimize_act_list)]].kind = heap[act].kind
         THEN IF heap[act].kind = "DeleteAction"
              THEN try_merge_delete(act, optimize_act_list, heap)
              ELSE try_merge_insert(act, optimize_act_list, heap)
         ELSE [heap |-> heap, list |-> Append(optimize_act_list, act)]
    ELSE [heap |-> heap, list |-> Append(optimize_act_list, act)]

\* One iteration of the loop of optimize, for the action act_list[i].
OptimizeStep(act, optimize_act_list, heap) ==
    IF optimize_act_list # <<>>
    THEN IF heap[optimize_act_list[Len(optimize_act_list)]].kind = heap[act].kind
         THEN IF heap[act].kind = "InsertAction"
              THEN try_merge_insert(act, optimize_act_list, heap)
              ELSE IF heap[act].kind = "DeleteAction"
                   THEN try_merge_delete(act, optimize_act_list, heap)
                   ELSE [heap |-> heap, list |-> Append(optimize_act_list, act)]
         ELSE [heap |-> heap, list |-> Append(optimize_act_list, act)]
    ELSE [heap |-> heap, list |-> Append(optimize_act_list, act)]

RECURSIVE OptimizeLoop(_, _, _, _)
OptimizeLoop(act_list, i, optimize_act_list, heap) ==
    IF i > Len(act_list)
    THEN [heap |-> heap, list |-> optimize_act_list]
    ELSE LET s == OptimizeStep(act_list[i], optimize_act_list, heap)
         IN  OptimizeLoop(act_list, i + 1, s.list, s.heap)

optimize(act_list, heap) == OptimizeLoop(act_list, 1, <<>>, heap)

\* The action objects a list of references stands for.
Deref(list, heap) == [i \in 1 .. Len(list) |-> heap[list[i]]]

RangeError(self) ==
    [raised |-> TRUE, msg |-> "incopatible versions.", self |-> self,
     value |-> <<>>]

\* get_actions with an empty window (from_version = to_version) refused.
get_actions_NoEmptyWindow(self, from_version, to_version) ==
    LET f == IF from_version = None THEN 0 ELSE from_version[1]
        t == IF to_version = None THEN self.version ELSE to_version[1]
    IN  IF f > self.version \/ t > self.version
        THEN RangeError(self)
        ELSE IF f >= t
        THEN RangeError(self)
        ELSE IF f < 0 \/ t < 0
        THEN RangeError(self)
        ELSE LET n == Len(self.actions_list)
                 act_list == SelectSeq([i \in 1 .. n |-> i],
                                 LAMBDA i : /\ f <= self.actions_list[i].from_version
                                            /\ self.actions_list[i].from_version < t)
                 o == optimize(act_list, self.actions_list)
             IN  [raised |-> FALSE, msg |-> "",
                  self |-> [self EXCEPT !.actions_list = SubSeq(o.heap, 1, n)],
                  value |-> Deref(o.list, o.heap)]

\* get_actions that takes the action logged at to_version into the window.
get_actions_InclusiveEnd(self, from_version, to_version) ==
    LET f == IF from_version = None THEN 0 ELSE from_version[1]
        t == IF to_version = None THEN self.version ELSE to_version[1]
    IN  IF f > self.version \/ t > self.version
        THEN RangeError(self)
        ELSE IF f > t
        THEN RangeError(self)
        ELSE IF f < 0 \/ t < 0
        THEN RangeError(self)
        ELSE LET n == Len(self.actions_list)
                 act_list == SelectSeq([i \in 1 .. n |-> i],
                                 LAMBDA i : /\ f <= self.actions_list[i].from_version
                                            /\ self.actions_list[i].from_version <= t)
                 o == optimize(act_list, self.actions_list)
             IN  [raised |-> FALSE, msg |-> "",
                  self |-> [self EXCEPT !.actions_list = SubSeq(o.heap, 1, n)],
                  value |-> Deref(o.list, o.heap)]

get_actions(self, from_version, to_version) ==
    LET f == IF from_version = None THEN 0 ELSE from_version[1]
        t == IF to_version = None THEN self.version ELSE to_version[1]
    IN  IF f > self.version \/ t > self.version
        THEN RangeError(self)
        ELSE IF f > t
        THEN RangeError(self)
        ELSE IF f < 0 \/ t < 0
        THEN RangeError(self)
        ELSE LET n == Len(self.actions_list)
                 act_list == SelectSeq([i \in 1 .. n |-> i],
                                 LAMBDA i : /\ f <= self.actions_list[i].from_version
                                            /\ self.actions_list[i].from_version < t)
                 o == optimize(act_list, self.actions_list)
             IN  [raised |-> FALSE, msg |-> "",
                  self |-> [self EXCEPT !.actions_list = SubSeq(o.heap, 1, n)],
                  value |-> Deref(o.list, o.heap)]

(***************************************************************************)
(* The calls a client makes.                                               *)
(***************************************************************************)
\* The strings given to insert and replace.
Txts == {<<"a">>, <<"b", "a">>}

\* The positions given, one beyond the text on either side included.
Positions == -1 .. Len(text) + 1

OptPositions == {None} \cup {Some(p) : p \in Positions}

\* The lengths given to delete, a negative one included.
Lengths == -1 .. Len(text) + 1

\* The version numbers a window may be asked for, one beyond the versions in
\* use on either side included.
Versions == -1 .. version + 1

OptVersions == {None} \cup {Some(v) : v \in Versions}

\* The bounds get_actions is called with: omitted, or at or next to an end of
\* the range of versions.
CalledVersions == {None} \cup {Some(v) : v \in {-1, 0, version, version + 1}}

\* The action objects a client constructs and hands to action().  Their
\* from_version is the current version or one off it; their to_version is
\* what a caller may write: one less, one more or two more.
Actions ==
    LET F == {v \in version - 1 .. version + 1 : v >= 0}
        T(f) == {v \in {f - 1, f + 1, f + 2} : v >= 0}
        P == {0, Len(text) + 1}
    IN  UNION {
          {InsertAction(p, <<"b">>, f, g) : p \in P, g \in T(f)}
            \cup
          {DeleteAction(p, 1, f, g) : p \in P, g \in T(f)} : f \in F }

Self == [text |-> text, version |-> version, actions_list |-> actions_list]

Init ==
    /\ text = TextHistory.text
    /\ version = TextHistory.version
    /\ actions_list = TextHistory.actions_list
    /\ last = [op |-> "__init__", raised |-> FALSE, msg |-> "", value |-> 0]
    /\ snapshots = <<TextHistory.text>>
    /\ successes = 0

\* The object after a call that gave r.
Becomes(r) ==
    /\ text' = r.self.text
    /\ version' = r.self.version
    /\ actions_list' = r.self.actions_list

\* A call of insert, replace, delete or action that gave r.
Mutation(op, r) ==
    /\ Len(actions_list) < MaxVersion
    /\ Len(r.self.text) <= MaxLen
    /\ Becomes(r)
    /\ last' = [op |-> op, raised |-> r.raised, msg |-> r.msg, value |-> r.value]
    /\ snapshots' = IF r.raised THEN snapshots ELSE Append(snapshots, r.self.text)
    /\ successes' = IF r.raised THEN successes ELSE successes + 1

InsertCall(txt, pos) == Mutation("insert", insert(Self, txt, pos))

ReplaceCall(txt, pos) == Mutation("replace", replace(Self, txt, pos))

DeleteCall(pos, length) == Mutation("delete", delete(Self, pos, length))

ActionCall(act) == Mutation("action", action(Self, act))

GetActionsCall(from_version, to_version) ==
    LET r == get_actions(Self, from_version, to_version)
    IN  /\ Becomes(r)
        /\ UNCHANGED <<last, snapshots, successes>>

Insert == \E txt \in Txts, pos \in OptPositions : InsertCall(txt, pos)

Replace == \E txt \in Txts, pos \in OptPositions : ReplaceCall(txt, pos)

Delete == \E pos \in Positions, length \in Lengths : DeleteCall(pos, length)

Action == \E act \in Actions : ActionCall(act)

GetActions ==
    \E from_version \in CalledVersions, to_version \in CalledVersions :
        GetActionsCall(from_version, to_version)

\* The object used through every method.
Next == Insert \/ Replace \/ Delete \/ Action \/ GetActions

Spec == Init /\ [][Next]_vars

\* The object used through insert, replace, delete and get_actions.
NextAPI == Insert \/ Replace \/ Delete \/ GetActions

SpecAPI == Init /\ [][NextAPI]_vars

\* The object used through the four methods that change it.
NextWrite == Insert \/ Replace \/ Delete \/ Action

SpecWrite == Init /\ [][NextWrite]_vars

(***************************************************************************)
(* The properties of the specification, by their identifiers.              *)
(***************************************************************************)
\* The actions of acts applied one after another, the first to txt: the text
\* reached, or raised = TRUE once an apply raised.
RECURSIVE ReplayFrom(_, _, _)
ReplayFrom(acts, i, txt) ==
    IF i > Len(acts)
    THEN Returned(txt)
    ELSE LET r == Apply(acts[i], txt)
         IN  IF r.raised THEN r ELSE ReplayFrom(acts, i + 1, r.text)

Replay(acts, txt) == ReplayFrom(acts, 1, txt)

Kinds(acts) == {acts[i].kind : i \in 1 .. Len(acts)}

Wrappers == {"insert", "replace", "delete"}

Mutators == Wrappers \cup {"action"}

\* C1: replay determinism.  In every state reached by insert, replace and
\* delete calls, those that raised included, applying the logged actions in
\* log order, the first to the empty string, raises at no step and gives the
\* current text.
C1_ReplayDeterminism ==
    LET r == Replay(actions_list, <<>>)
    IN  /\ ~r.raised
        /\ r.text = text

\* Two actions of two classes are logged and the last call, a delete, raised.
C1_Witness ==
    /\ Len(actions_list) = 2
    /\ Cardinality(Kinds(actions_list)) = 2
    /\ text # <<>>
    /\ last.op = "delete"
    /\ last.raised

\* No logged delete has a negative length.
NonNegativeDeletes ==
    \A i \in 1 .. Len(actions_list) :
        actions_list[i].kind = "DeleteAction" => actions_list[i].length >= 0

\* The text as it was at version v of a history built by insert, replace and
\* delete, where each committed action advances the version by one.
TextAt(v) == snapshots[v + 1]

\* C2: compaction preserves meaning.  For a history built by insert, replace
\* and delete calls whose deletes have non-negative lengths, and any bounds
\* 0 <= f <= t <= version, the actions get_actions(f, t) returns, applied in
\* order to the text at version f, raise at no step and give the text at
\* version t; get_actions() replayed from the empty string gives the text.
C2_CompactionPreservesMeaning ==
    NonNegativeDeletes =>
        /\ \A f \in 0 .. version : \A t \in f .. version :
              LET g == get_actions(Self, Some(f), Some(t))
                  r == Replay(g.value, TextAt(f))
              IN  /\ ~g.raised
                  /\ ~r.raised
                  /\ r.text = TextAt(t)
        /\ LET g == get_actions(Self, None, None)
               r == Replay(g.value, <<>>)
           IN  /\ ~g.raised
               /\ ~r.raised
               /\ r.text = text

\* A window that starts after version 0 comes back from get_actions as fewer
\* actions than were logged in it.
C2_Witness ==
    /\ NonNegativeDeletes
    /\ \E f \in 1 .. version : \E t \in f .. version :
          Len(get_actions(Self, Some(f), Some(t)).value) < t - f

\* C3: a failed mutation is all-or-nothing.  Whenever a call of insert,
\* replace, delete or action raises (a position or length out of bounds, or a
\* from_version that is not the current version), text, version and the list
\* of actions are what they were before the call: the object the next call
\* is made on is the object the failed call was made on.
C3_FailedMutationChangesNothing ==
    [][(last'.op \in Mutators /\ last'.raised) =>
          /\ text' = text
          /\ version' = version
          /\ actions_list' = actions_list
          /\ Self' = Self]_vars

\* A call of action has raised on a history that holds actions.
C3_Witness ==
    /\ last.op = "action"
    /\ last.raised
    /\ last.msg = "incorrect pos in DeleteAction."
    /\ Len(actions_list) >= 2

\* C4: version counting.  From the empty TextHistory, after insert, replace
\* and delete calls of which n returned, version = n and n actions are
\* logged; a call that returns gives the new version, the previous one plus
\* 1, and a call that raises changes neither the version nor the log.
C4_VersionCounting ==
    /\ [](/\ version = successes
          /\ Len(actions_list) = successes)
    /\ [][last'.op \in Wrappers =>
             IF last'.raised
             THEN /\ version' = version
                  /\ actions_list' = actions_list
                  /\ successes' = successes
             ELSE /\ version' = version + 1
                  /\ last'.value = version'
                  /\ Len(actions_list') = Len(actions_list) + 1
                  /\ successes' = successes + 1]_vars

\* The third call that returned, a delete, after a call that raised.
C4_Witness ==
    /\ last.op = "delete"
    /\ ~last.raised
    /\ last.value = 3
    /\ successes = 3
    /\ version = 3

\* C5: the log and version invariant under every entry point.  In every state
\* reached by calls of insert, replace, delete and action, action being given
\* any Action object a caller constructed, the i-th entry of the log (counted
\* from 0) has from_version = i and to_version = i + 1, and the length of the
\* log is the version.
C5_LogVersionInvariant ==
    /\ \A i \in 1 .. Len(actions_list) :
          /\ actions_list[i].from_version = i - 1
          /\ actions_list[i].to_version = i
    /\ Len(actions_list) = version

\* The action a is handed to action() and the call is rejected for its version,
\* the object staying as it was.
RejectedStale(a) ==
    /\ ActionCall(a)
    /\ last'.raised
    /\ last'.msg = "incopatible versions."
    /\ Self' = Self

\* An action other than b that was built against the version b was built
\* against, as a step of one version, has been applied.
RivalApplied(b) ==
    \E i \in 1 .. Len(actions_list) :
        /\ actions_list[i] # b
        /\ actions_list[i].from_version = b.from_version
        /\ actions_list[i].to_version = b.from_version + 1

\* C6: stale-version rejection.  action(a) raises the version-mismatch error
\* whenever a.from_version is not the current version, whatever a's position
\* and payload; and once one of two actions built against the same version v
\* (from_version = v, to_version = v + 1) has been applied, every later
\* attempt to apply the other is rejected and changes nothing.
C6_StaleVersionRejected ==
    [][\A b \in Actions :
          ActionCall(b) =>
              /\ b.from_version # version => RejectedStale(b)
              /\ (b.to_version = b.from_version + 1 /\ RivalApplied(b)) =>
                    RejectedStale(b)]_vars

\* The bound an argument of get_actions stands for, d being its default.
Bound(arg, d) == IF arg = None THEN d ELSE arg[1]

\* C7: range validation.  In any state and for any bounds, get_actions raises
\* the range error exactly when from_version < 0, or to_version < 0, or
\* from_version > to_version, or one of them is greater than the version;
\* in every other case, from_version = to_version and to_version = version
\* included, it returns a list.  An omitted from_version is 0 and an omitted
\* to_version is the current version.
C7_RangeValidation ==
    \A from_version \in OptVersions, to_version \in OptVersions :
        LET f == Bound(from_version, 0)
            t == Bound(to_version, version)
            g == get_actions(Self, from_version, to_version)
        IN  /\ g.raised <=> (f < 0 \/ t < 0 \/ f > t \/ f > version \/ t > version)
            /\ g.raised => g.msg = "incopatible versions."
            /\ ~g.raised => DOMAIN g.value = 1 .. Len(g.value)
            /\ (from_version = None \/ to_version = None) =>
                  g = get_actions(Self, Some(f), Some(t))

\* On a history of two versions, get_actions(2, 1) raises and
\* get_actions(2, 2) returns.
C7_Witness ==
    /\ version = 2
    /\ get_actions(Self, Some(2), Some(1)).raised
    /\ ~get_actions(Self, Some(2), Some(2)).raised

\* C8: get_actions is read-only.  A call of get_actions, returning or raising
\* and for any bounds, leaves text, version, the list of logged actions and
\* every field of every logged action as they were: a merge constructs a new
\* action and edits no logged one, so the same call made again returns the
\* same list.
C8_GetActionsReadOnly ==
    \A from_version \in OptVersions, to_version \in OptVersions :
        LET g == get_actions(Self, from_version, to_version)
        IN  /\ g.self.text = text
            /\ g.self.version = version
            /\ g.self.actions_list = actions_list
            /\ get_actions(g.self, from_version, to_version).value = g.value

\* A history whose deletes get_actions merges.
C8_Witness ==
    /\ Len(get_actions(Self, None, None).value) < Len(actions_list)
    /\ "DeleteAction" \in Kinds(get_actions(Self, None, None).value)

\* The logged actions whose from_version lies in [f, t), in log order.
Window(f, t) ==
    SelectSeq(actions_list,
              LAMBDA a : f <= a.from_version /\ a.from_version < t)

\* One insert or more, each at the position where the one before it ended.
InsertChain(w) ==
    /\ Len(w) >= 1
    /\ \A i \in 1 .. Len(w) : w[i].kind = "InsertAction"
    /\ \A i \in 2 .. Len(w) : w[i].pos = w[i - 1].pos + Len(w[i - 1].text)

RECURSIVE JoinTexts(_)
JoinTexts(w) == IF w = <<>> THEN <<>> ELSE Head(w).text \o JoinTexts(Tail(w))

DeleteRun(w) ==
    /\ Len(w) >= 1
    /\ \A i \in 1 .. Len(w) : w[i].kind = "DeleteAction"
    /\ \A i \in 1 .. Len(w) : w[i].pos = w[1].pos

RECURSIVE SumLengths(_)
SumLengths(w) == IF w = <<>> THEN 0 ELSE Head(w).length + SumLengths(Tail(w))

AfterFirstInsert ==
    /\ text = <<"a">>
    /\ version = 1
    /\ actions_list = <<InsertAction(0, <<"a">>, 0, 1)>>

\* r is two insert actions.
TwoInserts(r) ==
    /\ Len(r) = 2
    /\ \A i \in 1 .. 2 : r[i].kind = "InsertAction"

\* C11 as the specification states it: on a new TextHistory, after
\* insert("a", 0) the call insert("b", 5) leaves a history of which
\* get_actions() returns two separate insert actions.
C11_FarInsertsStaySeparate ==
    [][(AfterFirstInsert /\ InsertCall(<<"b">>, Some(5))) =>
          TwoInserts(get_actions(Self', None, None).value)]_vars

\* C11, amended: on a new TextHistory, after insert("a", 0) a second insert
\* at a position beyond the end of the text, insert("b", 5) among them,
\* raises "incorrect pos in InsertAction." and logs nothing, so get_actions()
\* returns the one insert of "a"; a second insert at position 0, which is in
\* range and not where the first one ended, gives two separate insert
\* actions, returned as they were logged.
C11_SecondInsert ==
    [][\A txt \in Txts \cup {<<"b">>} : \A pos \in Positions \cup {5} :
          (AfterFirstInsert /\ InsertCall(txt, Some(pos))) =>
              LET g == get_actions(Self', None, None)
              IN  /\ ~g.raised
                  /\ pos > 1 =>
                        /\ last'.raised
                        /\ last'.msg = "incorrect pos in InsertAction."
                        /\ g.value = <<InsertAction(0, <<"a">>, 0, 1)>>
                  /\ pos = 0 =>
                        /\ ~last'.raised
                        /\ TwoInserts(g.value)
                        /\ g.value = actions_list'
                        /\ g.value[2] = InsertAction(0, txt, 1, 2)]_vars

\* The second insert, beyond the end of "a", has raised and the log holds the
\* one insert of "a".
C11_Witness ==
    /\ AfterFirstInsert
    /\ last.op = "insert"
    /\ last.raised
    /\ last.msg = "incorrect pos in InsertAction."

\* C12: delete lengths are non-negative.  In every state reached by insert,
\* replace and delete calls, every delete in the log has length >= 0 (a
\* delete of negative length is never applied), and each logged delete left a
\* text of the length before it minus its length, never a longer one.
C12_DeleteLengthsNonNegative ==
    \A i \in 1 .. Len(actions_list) :
        actions_list[i].kind = "DeleteAction" =>
            /\ actions_list[i].length >= 0
            /\ Len(snapshots[i + 1]) = Len(snapshots[i]) - actions_list[i].length
            /\ Len(snapshots[i + 1]) <= Len(snapshots[i])

\* What the replace rule gives for text t, position p and content c: the
\* text up to p and c when c reaches the end of t or beyond, and otherwise
\* the text up to p, c, and the text after the characters c covers.
Overwritten(t, p, c) ==
    IF p + Len(c) >= Len(t)
    THEN SubSeq(t, 1, p) \o c
    ELSE SubSeq(t, 1, p) \o c \o SubSeq(t, p + Len(c) + 1, Len(t))

\* C13: replace semantics.  For the text of any state, any position and any
\* content, replace raises "incorrect pos in ReplaceAction" if and only if
\* position < 0 or position > len(text); otherwise the new text is
\* text[:position] + content when position + len(content) >= len(text), the
\* exact fit included, and text[:position] + content
\* + text[position + len(content):] otherwise.  Every replace in the log
\* took the text before it to the text after it by this rule.
C13_ReplaceSemantics ==
    /\ \A txt \in Txts \cup {<<>>} : \A pos \in Positions :
          LET r == replace(Self, txt, Some(pos))
          IN  /\ r.raised <=> (pos < 0 \/ pos > Len(text))
              /\ r.raised => /\ r.msg = "incorrect pos in ReplaceAction"
                             /\ r.self = Self
              /\ ~r.raised => r.self.text = Overwritten(text, pos, txt)
    /\ \A i \in 1 .. Len(actions_list) :
          actions_list[i].kind = "ReplaceAction" =>
              snapshots[i + 1] = Overwritten(snapshots[i], actions_list[i].pos,
                                             actions_list[i].text)

\* The last call, a replace, wrote content that ends exactly where the text
\* before it ended, from a position after its start.
C13_Witness ==
    /\ last.op = "replace"
    /\ ~last.raised
    /\ LET n == Len(actions_list)
       IN  /\ actions_list[n].kind = "ReplaceAction"
           /\ actions_list[n].pos > 0
           /\ actions_list[n].pos + Len(actions_list[n].text) = Len(snapshots[n])
           /\ text = Overwritten(snapshots[n], actions_list[n].pos,
                                 actions_list[n].text)

\* The simple splice text[:p] + c + text[p + len(c):] of c into t at p, where
\* a slice that starts at or past the end of t is empty.
Splice(t, p, c) ==
    SubSeq(t, 1, p) \o c
        \o (IF p + Len(c) >= Len(t) THEN <<>>
            ELSE SubSeq(t, p + Len(c) + 1, Len(t)))

\* The strings of "a" and "b" of length n at most.
Strings(n) == UNION {[1 .. k -> {"a", "b"}] : k \in 0 .. n}

\* C14 as the specification states it: there are a text, a valid position and
\* a content (here a text of MaxLen characters at most, a position in it and
\* a content of up to one character more) for which ReplaceAction.apply(text)
\* differs from text[:position] + content + text[position + len(content):].
C14_TruncationDiffersFromSplice ==
    \E t \in Strings(MaxLen) \cup {text} : \E p \in 0 .. Len(t) :
        \E c \in Strings(MaxLen + 1) :
            LET r == ReplaceApply(ReplaceAction(p, c, 0, 1), t)
            IN  r.raised \/ r.text # Splice(t, p, c)

\* C14, amended: the two-branch rule is not observably different from the
\* simple splice.  For the text of every state, every valid position and
\* every content, the content reaching past the end of the text included,
\* ReplaceAction.apply(text) returns text[:position] + content
\* + text[position + len(content):]; every replace in the log took the text
\* before it to that splice.
C14_TruncationIsSplice ==
    /\ \A p \in 0 .. Len(text) : \A c \in Txts \cup {<<>>, text \o <<"b">>} :
          LET r == ReplaceApply(ReplaceAction(p, c, version, version + 1), text)
          IN  /\ ~r.raised
              /\ r.text = Splice(text, p, c)
    /\ \A i \in 1 .. Len(actions_list) :
          actions_list[i].kind = "ReplaceAction" =>
              snapshots[i + 1] = Splice(snapshots[i], actions_list[i].pos,
                                        actions_list[i].text)

\* The last call, a replace, wrote content that reaches past the end of the
\* text before it: the branch that truncates was taken on a text that is not
\* empty.
C14_Witness ==
    /\ last.op = "replace"
    /\ ~last.raised
    /\ LET n == Len(actions_list)
       IN  /\ actions_list[n].kind = "ReplaceAction"
           /\ snapshots[n] # <<>>
           /\ actions_list[n].pos + Len(actions_list[n].text) > Len(snapshots[n])
           /\ text = Splice(snapshots[n], actions_list[n].pos,
                            actions_list[n].text)

\* The characters of t from index i on as Python counts them, text[i:]: an
\* index beyond the end gives the empty string and a negative one counts
\* from the end.
Tail_(t, i) ==
    LET n == Len(t)
        k == IF i >= n THEN n ELSE IF i >= 0 THEN i ELSE IF -i >= n THEN 0 ELSE n + i
    IN  [j \in 1 .. n - k |-> t[k + j]]

\* The characters of t before index i >= 0 as Python counts them, text[:i]:
\* the whole of t when i is beyond its end.
Head_(t, i) == [j \in 1 .. (IF i >= Len(t) THEN Len(t) ELSE i) |-> t[j]]

\* C15: delete semantics.  For the text of any state, any position and any
\* length, delete raises "incorrect pos in DeleteAction." if and only if
\* position < 0 or position + length > len(text), and nothing changes;
\* otherwise the new text is text[:position] + text[position + length:], the
\* version grows by one and one delete of that position and length is
\* appended.  delete(p, 0) with 0 <= p <= len(text) succeeds and leaves the
\* text as it was.  Every delete in the log took the text before it to the
\* text after it by this rule.
C15_DeleteSemantics ==
    /\ \A pos \in Positions : \A length \in Lengths :
          LET r == delete(Self, pos, length)
          IN  /\ r.raised <=> (pos < 0 \/ pos + length > Len(text))
              /\ r.raised => /\ r.msg = "incorrect pos in DeleteAction."
                             /\ r.self = Self
              /\ ~r.raised =>
                    /\ r.self.text = Head_(text, pos) \o Tail_(text, pos + length)
                    /\ r.self.version = version + 1
                    /\ r.value = version + 1
                    /\ r.self.actions_list
                          = Append(actions_list,
                                   DeleteAction(pos, length, version, version + 1))
              /\ (length = 0 /\ 0 <= pos /\ pos <= Len(text)) =>
                    /\ ~r.raised
                    /\ r.self.text = text
    /\ \A i \in 1 .. Len(actions_list) :
          LET a == actions_list[i]
          IN  a.kind = "DeleteAction" =>
                  snapshots[i + 1] = Head_(snapshots[i], a.pos)
                                        \o Tail_(snapshots[i], a.pos + a.length)

\* The last call, a delete of length 0 at the end of a text that is not
\* empty, returned: the text is what it was and the delete is the last entry
\* of the log.
C15_Witness ==
    /\ last.op = "delete"
    /\ ~last.raised
    /\ text # <<>>
    /\ LET n == Len(actions_list)
       IN  /\ actions_list[n] = DeleteAction(Len(text), 0, n - 1, n)
           /\ snapshots[n] = text
           /\ version = n

\* C16: the default position is the end of the text.  On the text of any
\* state, insert(content) and replace(content) with no position return, give
\* text + content, and log an action whose position is the length the text
\* had before the call; insert with a position p returns if and only if
\* 0 <= p <= len(text), and then gives text[:p] + content + text[p:].
C16_DefaultPositionIsEnd ==
    /\ \A txt \in Txts :
          LET i == insert(Self, txt, None)
              r == replace(Self, txt, None)
          IN  /\ ~i.raised
              /\ i.self.text = text \o txt
              /\ i.self.actions_list
                    = Append(actions_list,
                             InsertAction(Len(text), txt, version, version + 1))
              /\ ~r.raised
              /\ r.self.text = text \o txt
              /\ r.self.actions_list
                    = Append(actions_list,
                             ReplaceAction(Len(text), txt, version, version + 1))
    /\ \A txt \in Txts : \A p \in Positions :
          LET i == insert(Self, txt, Some(p))
          IN  /\ ~i.raised <=> (0 <= p /\ p <= Len(text))
              /\ ~i.raised =>
                    i.self.text = SubSeq(text, 1, p) \o txt
                                    \o SubSeq(text, p + 1, Len(text))

\* The last call, a replace, wrote its content at the end of a text that was
\* not empty, after an insert at the start of the text.
C16_Witness ==
    /\ last.op = "replace"
    /\ ~last.raised
    /\ LET n == Len(actions_list)
       IN  /\ n >= 2
           /\ snapshots[n] # <<>>
           /\ actions_list[n].kind = "ReplaceAction"
           /\ actions_list[n].pos = Len(snapshots[n])
           /\ text = snapshots[n] \o actions_list[n].text
           /\ actions_list[n - 1].kind = "InsertAction"
           /\ actions_list[n - 1].pos = 0

\* The replace actions of a list, in its order.
Replaces(l) == SelectSeq(l, LAMBDA a : a.kind = "ReplaceAction")

\* C17: replace actions are never merged.  For a history built by insert,
\* replace and delete and any bounds 0 <= f <= t <= version, the replace
\* actions get_actions(f, t) returns are the replace actions logged with
\* from_version in [f, t): as many, in log order, each with its position,
\* content, from_version and to_version unchanged.
C17_ReplaceNeverMerged ==
    \A f \in 0 .. version : \A t \in f .. version :
        LET g == get_actions(Self, Some(f), Some(t))
            logged == Replaces(Window(f, t))
            returned == Replaces(g.value)
        IN  /\ ~g.raised
            /\ returned = logged
            /\ Len(returned) = Len(logged)

\* Two replace actions logged one after the other, the second starting where
\* the content of the first ended, both returned by get_actions().
C17_Witness ==
    \E i \in 1 .. Len(actions_list) - 1 :
        /\ actions_list[i].kind = "ReplaceAction"
        /\ actions_list[i + 1].kind = "ReplaceAction"
        /\ actions_list[i + 1].pos
              = actions_list[i].pos + Len(actions_list[i].text)
        /\ Len(Replaces(get_actions(Self, None, None).value)) >= 2

\* The logged action that starts at version v of a history built by insert,
\* replace and delete.
LoggedAt(v) == actions_list[v + 1]

\* Two actions of one class that the merge of that class leaves apart.
StayApart(a, b) ==
    /\ a.kind = b.kind
    /\ a.kind = "InsertAction" => b.pos # a.pos + Len(a.text)
    /\ a.kind = "DeleteAction" => b.pos # a.pos

\* C18: merging only joins neighbours.  For a history built by insert,
\* replace and delete and any bounds 0 <= f <= t <= version, every entry
\* get_actions(f, t) returns stands for a run of consecutive log entries of
\* its own class, one that stands for a single log entry being that entry;
\* two log entries of one class with an entry of another class between them
\* come back as three entries (a delete at p, an insert, a delete at p); two
\* consecutive entries of one class whose merge condition fails come back as
\* they were logged.
C18_MergeJoinsNeighboursOnly ==
    \A f \in 0 .. version : \A t \in f .. version :
        LET g == get_actions(Self, Some(f), Some(t)).value
            w == Window(f, t)
        IN  /\ \A k \in 1 .. Len(g) :
                  /\ \A v \in g[k].from_version .. g[k].to_version - 1 :
                        /\ f <= v /\ v < t
                        /\ LoggedAt(v).kind = g[k].kind
                  /\ g[k].to_version = g[k].from_version + 1 =>
                        g[k] = LoggedAt(g[k].from_version)
            /\ (/\ Len(w) = 3
                /\ w[1].kind = w[3].kind
                /\ w[2].kind # w[1].kind) => g = w
            /\ (Len(w) = 2 /\ StayApart(w[1], w[2])) => g = w
            /\ (Len(w) = 2 /\ w[1].kind # w[2].kind) => g = w

\* A delete, an insert and a delete at the position of the first are logged,
\* and get_actions() returns three entries.
C18_Witness ==
    /\ Len(actions_list) = 3
    /\ actions_list[1].kind = "DeleteAction"
    /\ actions_list[2].kind = "InsertAction"
    /\ actions_list[3].kind = "DeleteAction"
    /\ actions_list[3].pos = actions_list[1].pos
    /\ actions_list[3].length > 0
    /\ Len(get_actions(Self, None, None).value) = 3

\* C19: the returned window is a contiguous chain of version intervals.  For
\* a history built by insert, replace and delete and any bounds
\* 0 <= f <= t <= version, the list r = get_actions(f, t) is empty if and only
\* if f = t; otherwise r[0].from_version = f, the last entry's to_version is
\* t, each entry's to_version is the next entry's from_version, and every
\* entry has from_version < to_version.
C19_WindowIsChain ==
    \A f \in 0 .. version : \A t \in f .. version :
        LET g == get_actions(Self, Some(f), Some(t))
            r == g.value
        IN  /\ ~g.raised
            /\ r = <<>> <=> f = t
            /\ r # <<>> =>
                  /\ r[1].from_version = f
                  /\ r[Len(r)].to_version = t
                  /\ \A i \in 1 .. Len(r) - 1 :
                        r[i].to_version = r[i + 1].from_version
                  /\ \A i \in 1 .. Len(r) : r[i].from_version < r[i].to_version

\* A window that starts after version 0 and ends before the current version
\* comes back as two entries, the first of them merged from two log entries.
C19_Witness ==
    /\ version = 3
    /\ LET r == get_actions(Self, Some(1), Some(2)).value
           s == get_actions(Self, Some(0), Some(3)).value
       IN  /\ Len(r) = 1
           /\ Len(s) = 2
           /\ s[1].to_version = 2
           /\ s[2].from_version = 2

\* optimize(L) for a list L of action objects of its own: the actions of the
\* list optimize returns.
Optimized(L) ==
    LET o == optimize([i \in 1 .. Len(L) |-> i], L)
    IN  Deref(o.list, o.heap)

\* Two actions a merge would join: an insert that starts where the insert
\* before it ends, or two deletes at one position.
WouldMerge(a, b) ==
    \/ /\ a.kind = "InsertAction"
       /\ b.kind = "InsertAction"
       /\ b.pos = a.pos + Len(a.text)
    \/ /\ a.kind = "DeleteAction"
       /\ b.kind = "DeleteAction"
       /\ b.pos = a.pos

\* C20: the list optimize returns is fully merged.  For every list L of
\* consecutive entries of the log of a history built by insert, replace and
\* delete, optimize(L), the list get_actions returns for the window, has no
\* two adjacent inserts of which the second starts where the first ends and
\* no two adjacent deletes at one position, and optimize(optimize(L)) is
\* optimize(L) field by field.
C20_OptimizeIsIdempotent ==
    \A f \in 0 .. version : \A t \in f .. version :
        LET r == get_actions(Self, Some(f), Some(t)).value
        IN  /\ \A i \in 1 .. Len(r) - 1 : ~WouldMerge(r[i], r[i + 1])
            /\ Optimized(r) = r

\* The log holds two inserts typed back to back and then an insert elsewhere:
\* optimize joins the first two and leaves two adjacent inserts.
C20_Witness ==
    /\ Len(actions_list) = 3
    /\ \A i \in 1 .. 3 : actions_list[i].kind = "InsertAction"
    /\ WouldMerge(actions_list[1], actions_list[2])
    /\ ~WouldMerge(actions_list[2], actions_list[3])
    /\ Len(Optimized(actions_list)) = 2
    /\ Optimized(actions_list)[1].to_version = 2

====
